---- MODULE Spec2Model ----
(***************************************************************************)
(* Model of src/create_presentation.py: one run of create_presentation()   *)
(* builds a 14-slide document in memory through three nested builders and  *)
(* four inline blocks, saves it once and prints its status lines.          *)
(*                                                                         *)
(* Notation.                                                               *)
(*  - A Python string is modelled as the sequence of its "\n"-separated    *)
(*    segments, so "a\nb" is <<"a", "b">> and "a" is <<"a">>.  Splitting   *)
(*    a string into lines (TextFrame.text) and keeping it whole            *)
(*    (Paragraph.text) are then different operations.                      *)
(*  - A code point outside ASCII is written {U+XXXX} inside a segment.     *)
(*  - An optional attribute (None until it is set) is <<>> when unset      *)
(*    and <<v>> when set to v.                                             *)
(*  - Lengths are integer EMU; Inches takes hundredths of an inch, so      *)
(*    Inches(250) is the value of Inches(2.5) in the source.               *)
(***************************************************************************)
EXTENDS Integers, Sequences, FiniteSets

VARIABLES
    prs,            \* the document: the sequence of slides, each a sequence of shapes
    pc,             \* the position of the run inside create_presentation
    i,              \* index of the running loop (0-based, as enumerate gives it)
    j,              \* inner index of the table-filling loop
    file,           \* the output file in the working directory
    stdout,         \* the lines the current run has printed
    run,            \* number of the current invocation of the program
    saved,          \* history: the documents written by the save of each run so far
    content_items,  \* argument of add_content_slide in the builder harness
    features,       \* argument of add_feature_slide in the builder harness
    calls,          \* history: the builder calls of the harness, one per slide
    raised          \* whether the last builder call of the harness raised

vars == <<prs, pc, i, j, file, stdout, run, saved, content_items, features, calls, raised>>

----------------------------------------------------------------------------
\* Bounds of the model

\* number of invocations of the program in one working directory
MaxRuns == 2
\* longest content_items list handed to add_content_slide by the harness
MaxItems == 3
\* longest features list handed to add_feature_slide by the harness
MaxFeatures == 5
\* number of builder calls the harness makes on one document
MaxCalls == 2

----------------------------------------------------------------------------
\* The presentation library, as far as the script uses it

None == <<>>
Some(v) == <<v>>

Min(a, b) == IF a <= b THEN a ELSE b

\* pptx.util.Inches, argument in hundredths of an inch: int(inches * 914400)
Inches(hundredths) == (hundredths * 914400) \div 100
\* pptx.util.Pt: int(points * 12700)
Pt(points) == points * 12700
RGBColor(r, g, b) == <<r, g, b>>

slide_width == Inches(1000)
slide_height == Inches(750)

PRIMARY_COLOR == RGBColor(0, 102, 204)
SECONDARY_COLOR == RGBColor(51, 51, 51)
ACCENT_COLOR == RGBColor(0, 176, 80)
LIGHT_BG == RGBColor(240, 248, 255)
WHITE == RGBColor(255, 255, 255)

\* a paragraph as the library creates it: no run properties set, level 0
NewPara(text) == [text |-> text, size |-> None, bold |-> None, color |-> None, alignment |-> None, level |-> 0, space_before |-> None]
EmptyPara == NewPara(<<"">>)

\* text_frame.text = text: the frame is emptied and gets one fresh paragraph
\* for every "\n"-separated segment of text
SetFrameText(text) == [k \in 1..Len(text) |-> NewPara(<<text[k]>>)]
\* p.text = text: the paragraph keeps its properties; a "\n" in text becomes
\* a line break inside the same paragraph
SetParaText(p, text) == [p EXCEPT !.text = text]
\* text_frame.add_paragraph()
add_paragraph(paras) == Append(paras, EmptyPara)

\* slide.shapes.add_shape(1, x, y, w, h): a rectangle with the theme's fill and outline
add_shape(x, y, w, h) == [kind |-> "rect", x |-> x, y |-> y, w |-> w, h |-> h, fill |-> None, line |-> "theme", line_color |-> None, line_width |-> None, word_wrap |-> None, paras |-> <<>>, cells |-> <<>>, col_widths |-> <<>>]
\* slide.shapes.add_textbox(x, y, w, h): a text box holding one empty paragraph
add_textbox(x, y, w, h) == [kind |-> "textbox", x |-> x, y |-> y, w |-> w, h |-> h, fill |-> None, line |-> "theme", line_color |-> None, line_width |-> None, word_wrap |-> None, paras |-> <<EmptyPara>>, cells |-> <<>>, col_widths |-> <<>>]
\* a table cell as add_table creates it
NewCell == [fill |-> None, paras |-> <<EmptyPara>>]
\* slide.shapes.add_table(rows, cols, x, y, w, h): every column gets w // cols
add_table(rows, cols, x, y, w, h) == [kind |-> "table", x |-> x, y |-> y, w |-> w, h |-> h, fill |-> None, line |-> "theme", line_color |-> None, line_width |-> None, word_wrap |-> None, paras |-> <<>>, cells |-> [r \in 1..rows |-> [c \in 1..cols |-> NewCell]], col_widths |-> [c \in 1..cols |-> w \div cols]]

\* prs.slides.add_slide(prs.slide_layouts[6]): a blank slide at the end of the document
add_slide(doc) == Append(doc, <<>>)
\* slide.shapes.add_*(...) on the slide the running block has just created
\* (variant: the shape lands on the first slide of the document)
AddShapeFirst(doc, shape) == [doc EXCEPT ![1] = Append(@, shape)]
AddShape(doc, shape) == [doc EXCEPT ![Len(doc)] = Append(@, shape)]
\* the shape the running block created last, replaced by its updated value
SetLastShape(doc, shape) == [doc EXCEPT ![Len(doc)] = [@ EXCEPT ![Len(@)] = shape]]
LastSlide(doc) == doc[Len(doc)]
LastShape(doc) == LastSlide(doc)[Len(LastSlide(doc))]

----------------------------------------------------------------------------
\* Shapes the builders and the inline blocks share

\* full-canvas background (lines 29-32, 467-470, 516-519)
Background(color) == [add_shape(0, 0, slide_width, slide_height) EXCEPT !.fill = Some(color), !.line = "none"]
\* title bar (lines 60-63, 126-129, 308-311, 404-407)
TitleBar == [add_shape(0, 0, slide_width, Inches(100)) EXCEPT !.fill = Some(PRIMARY_COLOR), !.line = "none"]
\* title text in the bar: only paragraphs[0] is styled (lines 66-72, 132-138, 313-319, 409-415)
TitleStyle(p) == [p EXCEPT !.size = Some(Pt(36)), !.bold = Some(TRUE), !.color = Some(WHITE)]
TitleBox(title) == [add_textbox(Inches(50), Inches(20), Inches(900), Inches(60)) EXCEPT !.paras = [SetFrameText(title) EXCEPT ![1] = TitleStyle(@)]]
\* a centred white line of the given size: only paragraphs[0] is styled
CentredStyle(p, points, bold) == [p EXCEPT !.size = Some(Pt(points)), !.bold = bold, !.color = Some(WHITE), !.alignment = Some("CENTER")]
CentredBox(x, y, w, h, text, points, bold) == [add_textbox(x, y, w, h) EXCEPT !.paras = [SetFrameText(text) EXCEPT ![1] = CentredStyle(@, points, bold)]]

----------------------------------------------------------------------------
\* add_title_slide (lines 24-53)

add_title_slide(doc, title, subtitle) ==
    LET d1 == AddShape(add_slide(doc), Background(PRIMARY_COLOR))
        d2 == AddShape(d1, CentredBox(Inches(100), Inches(250), Inches(800), Inches(100), title, 54, Some(TRUE)))
        d3 == AddShape(d2, CentredBox(Inches(100), Inches(400), Inches(800), Inches(100), subtitle, 28, None))
    IN  [slides |-> d3, raised |-> FALSE]

----------------------------------------------------------------------------
\* add_content_slide (lines 55-119)

\* the body of the bullet loop for one paragraph (lines 84-88)
\* (variant: only the first paragraph is styled)
BulletParaFirstOnly(p, item, n) == IF n = 0 THEN [SetParaText(p, item) EXCEPT !.level = 0, !.size = Some(Pt(20)), !.color = Some(SECONDARY_COLOR), !.space_before = Some(Pt(12))] ELSE SetParaText(p, item)
BulletPara(p, item, n) == [SetParaText(p, item) EXCEPT !.level = 0, !.size = Some(Pt(20)), !.color = Some(SECONDARY_COLOR), !.space_before = Some(Pt(12))]
\* the body of a column loop for one paragraph (lines 100-103, 114-117)
ColumnPara(p, item) == [SetParaText(p, item) EXCEPT !.size = Some(Pt(18)), !.color = Some(SECONDARY_COLOR), !.space_before = Some(Pt(10))]

\* for i, item in enumerate(items): from iteration n on (lines 80-88).
\* paragraphs[i] raises IndexError when the frame has no paragraph i.
RECURSIVE bullet_loop(_, _, _)
bullet_loop(paras, items, n) ==
    IF n >= Len(items) THEN [paras |-> paras, raised |-> FALSE]
    ELSE LET ps == IF n > 0 THEN add_paragraph(paras) ELSE paras
         IN  IF n + 1 > Len(ps) THEN [paras |-> ps, raised |-> TRUE]
             ELSE bullet_loop([ps EXCEPT ![n + 1] = BulletPara(@, items[n + 1], n)], items, n + 1)

\* the loop of either column (lines 96-103, 110-117)
RECURSIVE column_loop(_, _, _)
column_loop(paras, items, n) ==
    IF n >= Len(items) THEN [paras |-> paras, raised |-> FALSE]
    ELSE LET ps == IF n > 0 THEN add_paragraph(paras) ELSE paras
         IN  IF n + 1 > Len(ps) THEN [paras |-> ps, raised |-> TRUE]
             ELSE column_loop([ps EXCEPT ![n + 1] = ColumnPara(@, items[n + 1])], items, n + 1)

\* content_items[:len(content_items)//2] (line 96)
\* (variant: the midpoint rounded up)
LeftItemsCeil(items) == SubSeq(items, 1, (Len(items) + 1) \div 2)
LeftItems(items) == SubSeq(items, 1, Len(items) \div 2)
\* content_items[len(content_items)//2:] (line 110)
RightItems(items) == SubSeq(items, Len(items) \div 2 + 1, Len(items))

\* layout_type == "bullet" (lines 76-88)
BulletBody(doc, items) ==
    LET box == [add_textbox(Inches(80), Inches(150), Inches(840), Inches(550)) EXCEPT !.word_wrap = Some(TRUE)]
        r == bullet_loop(box.paras, items, 0)
    IN  [slides |-> AddShape(doc, [box EXCEPT !.paras = r.paras]), raised |-> r.raised]

\* layout_type == "two_column" (lines 91-117)
TwoColumnBody(doc, items) ==
    LET left_box == [add_textbox(Inches(80), Inches(150), Inches(400), Inches(550)) EXCEPT !.word_wrap = Some(TRUE)]
        l == column_loop(left_box.paras, LeftItems(items), 0)
        d1 == AddShape(doc, [left_box EXCEPT !.paras = l.paras])
        right_box == [add_textbox(Inches(520), Inches(150), Inches(400), Inches(550)) EXCEPT !.word_wrap = Some(TRUE)]
        r == column_loop(right_box.paras, RightItems(items), 0)
    IN  IF l.raised THEN [slides |-> d1, raised |-> TRUE]
        ELSE [slides |-> AddShape(d1, [right_box EXCEPT !.paras = r.paras]), raised |-> r.raised]

\* a new slide with its title bar and title (lines 57-72, 123-138, 305-319, 401-415)
SlideHeader(doc, title) == AddShape(AddShape(add_slide(doc), TitleBar), TitleBox(title))

\* (variant: content_items[0] is read before the loops, IndexError on an empty list)
add_content_slide_first_item(doc, title, items, layout_type) ==
    IF Len(items) = 0 THEN [slides |-> SlideHeader(doc, title), raised |-> TRUE]
    ELSE IF layout_type = "bullet" THEN BulletBody(SlideHeader(doc, title), items)
    ELSE IF layout_type = "two_column" THEN TwoColumnBody(SlideHeader(doc, title), items)
    ELSE [slides |-> SlideHeader(doc, title), raised |-> FALSE]
add_content_slide(doc, title, items, layout_type) ==
    IF layout_type = "bullet" THEN BulletBody(SlideHeader(doc, title), items)
    ELSE IF layout_type = "two_column" THEN TwoColumnBody(SlideHeader(doc, title), items)
    ELSE [slides |-> SlideHeader(doc, title), raised |-> FALSE]

----------------------------------------------------------------------------
\* add_feature_slide (lines 121-182)

\* (variant: boxes 5 in wide)
box_width_wide == Inches(500)
box_width == Inches(400)
box_height == Inches(250)

\* the 2x2 grid: top-left, top-right, bottom-left, bottom-right (lines 145-150)
\* (variant: the grid filled column by column)
positions_column_major == << <<Inches(80), Inches(150)>>, <<Inches(80), Inches(420)>>, <<Inches(520), Inches(150)>>, <<Inches(520), Inches(420)>> >>
positions == << <<Inches(80), Inches(150)>>, <<Inches(520), Inches(150)>>, <<Inches(80), Inches(420)>>, <<Inches(520), Inches(420)>> >>

\* features[:4] (line 152)
FirstFour(pairs) == SubSeq(pairs, 1, Min(4, Len(pairs)))

\* the three shapes of one feature at (x, y) (lines 156-180)
FeatureBox(x, y) == [add_shape(x, y, box_width, box_height) EXCEPT !.fill = Some(LIGHT_BG), !.line = "solid", !.line_color = Some(PRIMARY_COLOR), !.line_width = Some(Pt(2))]
FeatureTitle(x, y, feature_title) == [add_textbox(x + Inches(20), y + Inches(20), box_width - Inches(40), Inches(50)) EXCEPT !.paras = [SetFrameText(feature_title) EXCEPT ![1] = [@ EXCEPT !.size = Some(Pt(22)), !.bold = Some(TRUE), !.color = Some(PRIMARY_COLOR)]]]
FeatureDesc(x, y, feature_desc) == [add_textbox(x + Inches(20), y + Inches(80), box_width - Inches(40), box_height - Inches(100)) EXCEPT !.word_wrap = Some(TRUE), !.paras = [SetFrameText(feature_desc) EXCEPT ![1] = [@ EXCEPT !.size = Some(Pt(16)), !.color = Some(SECONDARY_COLOR)]]]

\* for i, (feature_title, feature_desc) in enumerate(pairs): from iteration n on
\* (lines 152-180). positions[i] raises IndexError when the grid has no cell i.
RECURSIVE feature_loop(_, _, _)
feature_loop(doc, pairs, n) ==
    IF n >= Len(pairs) THEN [slides |-> doc, raised |-> FALSE]
    ELSE IF n + 1 > Len(positions) THEN [slides |-> doc, raised |-> TRUE]
    ELSE LET x == positions[n + 1][1]
             y == positions[n + 1][2]
             d1 == AddShape(doc, FeatureBox(x, y))
             d2 == AddShape(d1, FeatureTitle(x, y, pairs[n + 1][1]))
             d3 == AddShape(d2, FeatureDesc(x, y, pairs[n + 1][2]))
         IN  feature_loop(d3, pairs, n + 1)

add_feature_slide(doc, title, pairs) == feature_loop(SlideHeader(doc, title), FirstFour(pairs), 0)

----------------------------------------------------------------------------
\* The literal content of the 14 slides

\* add_title_slide(...) at lines 185-188
Slide1Title == <<"Signal Processing Visualization Platform">>
Slide1Subtitle == <<"Making Complex Signal Analysis Simple, Visual, and Accessible">>

\* add_content_slide(...) at lines 191-202
Slide2Title == <<"The Challenge">>
Slide2Items == <<
    <<"{U+274C} Complex tools with steep learning curves">>,
    <<"{U+274C} No real-time visualization of processing effects">>,
    <<"{U+274C} Difficult to experiment with different parameters">>,
    <<"{U+274C} Poor integration between generation, processing, and analysis">>,
    <<"">>,
    <<"{U+2705} Our Solution: An all-in-one platform that makes signal processing">>,
    <<"    visual, interactive, and accessible">> >>

\* add_feature_slide(...) at lines 205-213
Slide3Title == <<"Key Features">>
Slide3Features == <<
    << <<"{U+1F3B5} Multi-Signal Generation">>,
       <<"Generate sine, square, sawtooth waves, and white noise with configurable parameters">> >>,
    << <<"{U+26A1} Real-Time Processing">>,
       <<"Apply filters and transformations with instant visual feedback">> >>,
    << <<"{U+1F4CA} Interactive Visualization">>,
       <<"Professional charting with zoom, pan, and side-by-side comparison">> >>,
    << <<"{U+1F514} Smart Event Detection">>,
       <<"Monitor signals with configurable thresholds and automatic event logging">> >> >>

\* add_content_slide(...) at lines 216-229
Slide4Title == <<"Multi-Signal Generation">>
Slide4Items == <<
    <<"{U+1F3B5} Sine Waves - Pure tones for testing">>,
    <<"{U+2B1B} Square Waves - Digital signal simulation">>,
    <<"{U+1F4D0} Sawtooth Waves - Audio synthesis">>,
    <<"{U+1F4E1} White Noise - System testing">>,
    <<"">>,
    <<"Configure:">>,
    <<"  {U+2022} Frequency, amplitude, phase">>,
    <<"  {U+2022} Duration and sample rate">>,
    <<"  {U+2022} Instant parameter validation">> >>

\* add_content_slide(...) at lines 232-249
Slide5Title == <<"Real-Time Signal Processing">>
Slide5Items == <<
    <<"{U+1F53D} Low-Pass Filters">>,
    <<"  Remove high-frequency noise">>,
    <<"">>,
    <<"{U+1F53C} High-Pass Filters">>,
    <<"  Eliminate DC offset and low-frequency drift">>,
    <<"">>,
    <<"{U+1F39A}{U+FE0F} Band-Pass Filters">>,
    <<"  Isolate specific frequency ranges">>,
    <<"">>,
    <<"{U+1F4C8} Gain Adjustment">>,
    <<"  Amplify or attenuate signals">>,
    <<"">>,
    <<"{U+2728} See effects immediately with side-by-side comparison">> >>

\* add_content_slide(...) at lines 252-268
Slide6Title == <<"Enterprise-Grade Architecture">>
Slide6Items == <<
    <<"{U+1F3D7}{U+FE0F} Onion Architecture">>,
    <<"  {U+2022} Core Domain Layer - Pure business logic">>,
    <<"  {U+2022} Application Layer - Use case orchestration">>,
    <<"  {U+2022} Infrastructure Layer - Database & services">>,
    <<"  {U+2022} Presentation Layer - REST API + React UI">>,
    <<"">>,
    <<"{U+1F4BB} Modern Technology Stack">>,
    <<"  {U+2022} Backend: .NET 10 with ASP.NET Core">>,
    <<"  {U+2022} Frontend: React 18 + TypeScript">>,
    <<"  {U+2022} Time-Series DB: InfluxDB (10:1 compression)">>,
    <<"  {U+2022} Metadata DB: MongoDB (flexible storage)">>,
    <<"  {U+2022} API Documentation: Swagger/OpenAPI">> >>

\* add_content_slide(...) at lines 271-291
Slide7Title == <<"Live Demo Flow (3 Minutes)">>
Slide7Items == <<
    <<"1{U+FE0F}{U+20E3} Generate a 1kHz Sine Wave (30 sec)">>,
    <<"   {U+2022} Show parameter panel">>,
    <<"   {U+2022} Click generate">>,
    <<"   {U+2022} Watch waveform appear instantly">>,
    <<"">>,
    <<"2{U+FE0F}{U+20E3} Apply Low-Pass Filter at 500Hz (30 sec)">>,
    <<"   {U+2022} Configure filter parameters">>,
    <<"   {U+2022} Apply processing">>,
    <<"   {U+2022} See both signals side-by-side">>,
    <<"">>,
    <<"3{U+FE0F}{U+20E3} Test Threshold Detection (20 sec)">>,
    <<"   {U+2022} Set threshold to 0.5">>,
    <<"   {U+2022} Input values and trigger events">>,
    <<"">>,
    <<"4{U+FE0F}{U+20E3} Demonstrate Persistence (20 sec)">>,
    <<"   {U+2022} Show historical signal selector">> >>

\* add_feature_slide(...) at lines 294-302
Slide8Title == <<"Use Cases Across Industries">>
Slide8Features == <<
    << <<"{U+1F52C} Research & Development">>,
       <<"Test algorithms, validate filter designs, prototype audio/RF systems">> >>,
    << <<"{U+1F393} Education">>,
       <<"Teach signal processing concepts with interactive visual demonstrations">> >>,
    << <<"{U+1F3ED} Quality Control">>,
       <<"Monitor production signals, detect anomalies, analyze historical data">> >>,
    << <<"{U+1F3B5} Audio Engineering">>,
       <<"Synthesize test tones, analyze frequency response, validate filter designs">> >> >>

\* table_data at lines 322-330
table_data == <<
    << <<"Feature">>, <<"Traditional Tools">>, <<"Our Platform">> >>,
    << <<"Learning Curve">>, <<"Weeks">>, <<"{U+2705} Minutes">> >>,
    << <<"Real-Time Feedback">>, <<"{U+274C} No">>, <<"{U+2705} Instant">> >>,
    << <<"Visual Comparison">>, <<"Manual">>, <<"{U+2705} Side-by-side">> >>,
    << <<"Setup Complexity">>, <<"High">>, <<"{U+2705} One-click">> >>,
    << <<"Cost">>, <<"$$$$">>, <<"{U+2705} Local & Free">> >>,
    << <<"Extensibility">>, <<"Limited">>, <<"{U+2705} Open Architecture">> >> >>

\* add_content_slide(...) at lines 366-381
Slide10Title == <<"Business Value">>
Slide10Items == <<
    <<"For Organizations:">>,
    <<"  {U+1F4C8} Reduce development time by 60%">>,
    <<"  {U+1F4B0} Lower training costs with intuitive UI">>,
    <<"  {U+1F91D} Better collaboration with visual results">>,
    <<"  {U+2705} Built-in quality assurance">>,
    <<"">>,
    <<"For Individuals:">>,
    <<"  {U+1F680} Learn faster with visual feedback">>,
    <<"  {U+1F52C} Experiment freely with instant results">>,
    <<"  {U+1F3C6} Professional-grade algorithms">>,
    <<"  {U+1F512} Complete control - all data stays local">> >>

\* add_content_slide(...) at lines 384-398
Slide11Title == <<"Future Roadmap">>
Slide11Items == <<
    <<"Phase 2 Enhancements:">>,
    <<"">>,
    <<"{U+1F4CA} Frequency-domain visualization (FFT spectrum)">>,
    <<"{U+1F4BE} Export signals to CSV/JSON">>,
    <<"{U+1F4E5} Import real-world signal data">>,
    <<"{U+1F39B}{U+FE0F} Additional filter types (notch, all-pass)">>,
    <<"{U+1F3A4} Real-time audio input streaming">>,
    <<"{U+2795} Multi-signal arithmetic operations">>,
    <<"">>,
    <<"Your feedback shapes our roadmap!">> >>

\* stats at lines 418-425
stats == <<
    << <<"{U+26A1} <100ms">>, <<"Visualization Updates">> >>,
    << <<"{U+1F5C4}{U+FE0F} 10:1">>, <<"Data Compression">> >>,
    << <<"{U+1F3A8} 4 Types">>, <<"Signal Generation">> >>,
    << <<"{U+1F527} 4 Operations">>, <<"Signal Processing">> >>,
    << <<"{U+1F3D7}{U+FE0F} 4 Layers">>, <<"Clean Architecture">> >>,
    << <<"{U+2705} 100%">>, <<"Local Deployment">> >> >>

\* steps_text at lines 487-491
steps_text == <<
    <<"1. Clone the repository">>,
    <<"2. Run start.ps1 (Windows)">>,
    <<"3. Start processing in under 60 seconds">> >>


----------------------------------------------------------------------------
\* The harness inputs of the builders

ItemAlphabet == { <<"">>, <<"a">>, <<"b", "c">> }
FeatureAlphabet == { << <<"F">>, <<"f">> >>, << <<"G1", "G2">>, <<"g">> >> }
TitleAlphabet == { <<"T">>, <<"T1", "T2">> }
LayoutTypes == {"bullet", "two_column", "grid"}
ListsUpTo(S, n) == UNION {[1..m -> S] : m \in 0..n}

----------------------------------------------------------------------------
\* create_presentation (lines 11-545): the statements of the script in order

\* (variants: slides 3 and 4 exchanged; the first print before the save)
ProgramOrderSwapped == <<"start", "slide1", "slide2", "slide4", "slide3", "slide5", "slide6", "slide7", "slide8", "slide9", "table", "fill", "slide10", "slide11", "slide12", "stats", "slide13", "steps", "contact", "slide14", "save", "print1", "print2", "print3", "print4", "done">>
ProgramOrderPrintFirst == <<"start", "slide1", "slide2", "slide3", "slide4", "slide5", "slide6", "slide7", "slide8", "slide9", "table", "fill", "slide10", "slide11", "slide12", "stats", "slide13", "steps", "contact", "slide14", "print1", "save", "print2", "print3", "print4", "done">>
ProgramOrder == <<"start", "slide1", "slide2", "slide3", "slide4", "slide5", "slide6", "slide7", "slide8", "slide9", "table", "fill", "slide10", "slide11", "slide12", "stats", "slide13", "steps", "contact", "slide14", "save", "print1", "print2", "print3", "print4", "done">>

\* the statement that follows statement p
After(p) == ProgramOrder[(CHOOSE k \in 1..Len(ProgramOrder) : ProgramOrder[k] = p) + 1]

\* the statements that build slides (lines 184-538)
ConstructionPcs == {"slide1", "slide2", "slide3", "slide4", "slide5", "slide6", "slide7", "slide8", "slide9", "table", "fill", "slide10", "slide11", "slide12", "stats", "slide13", "steps", "contact", "slide14"}

\* Presentation(): the document of the library's default template, which has
\* no slide, whatever the working directory holds (line 13)
\* (variant: Presentation(path) opens the file an earlier run has left)
PresentationFromFile(f) == IF f.state = "written" THEN f.doc ELSE <<>>
Presentation(f) == <<>>

\* the output file before any run
NoFile == [state |-> "absent", doc |-> <<>>]

\* the inline title of slide 9 (line 315) and of slide 12 (line 411)
Slide9Title == <<"What Makes Us Different">>
Slide12Title == <<"Quick Stats">>

\* positions of the stat boxes on slide 12 (lines 427-434)
stat_positions == << <<Inches(80), Inches(180)>>, <<Inches(370), Inches(180)>>, <<Inches(660), Inches(180)>>, <<Inches(80), Inches(430)>>, <<Inches(370), Inches(430)>>, <<Inches(660), Inches(430)>> >>

\* the texts of slides 13 and 14 (lines 475, 506, 524, 534)
heading_text == <<"Ready to Transform Your Workflow?">>
contact_text == <<"Let's discuss how this platform can solve", "your signal processing challenges">>
thanks_text == <<"Thank You!">>
tagline_text == <<"Signal Processing Visualization Platform">>

\* the arguments of the print calls (lines 542-545)
status_lines == <<
    <<"{U+2705} Presentation created successfully: Signal_Processing_Platform_Presentation.pptx">>,
    <<"{U+1F4CA} Total slides: 14">>,
    <<"{U+1F3A8} Professional blue theme applied">>,
    <<"{U+23F1}{U+FE0F} Optimized for 3-minute delivery">> >>

----------------------------------------------------------------------------
\* One run of the script

harness_vars == <<content_items, features, calls, raised>>

Init ==
    /\ prs = <<>>
    /\ pc = "start"
    /\ i = 0
    /\ j = 0
    /\ file = NoFile
    /\ stdout = <<>>
    /\ run = 1
    /\ saved = <<>>
    /\ content_items = <<>>
    /\ features = <<>>
    /\ calls = <<>>
    /\ raised = FALSE

\* prs = Presentation() and the palette (lines 13-22)
Start ==
    /\ pc = "start"
    /\ prs' = Presentation(file)
    /\ pc' = After(pc)
    /\ UNCHANGED <<i, j, file, stdout, run, saved>>
    /\ UNCHANGED harness_vars

\* a call of a builder at the top level of the script: an exception it raises
\* is not handled and ends the run
BuilderCall(r) ==
    /\ prs' = r.slides
    /\ pc' = IF r.raised THEN "aborted" ELSE After(pc)
    /\ UNCHANGED <<i, j, file, stdout, run, saved>>
    /\ UNCHANGED harness_vars

\* lines 185-188
Slide1 == pc = "slide1" /\ BuilderCall(add_title_slide(prs, Slide1Title, Slide1Subtitle))
\* lines 191-202
Slide2 == pc = "slide2" /\ BuilderCall(add_content_slide(prs, Slide2Title, Slide2Items, "bullet"))
\* lines 205-213
Slide3 == pc = "slide3" /\ BuilderCall(add_feature_slide(prs, Slide3Title, Slide3Features))
\* lines 216-229
Slide4 == pc = "slide4" /\ BuilderCall(add_content_slide(prs, Slide4Title, Slide4Items, "bullet"))
\* lines 232-249
Slide5 == pc = "slide5" /\ BuilderCall(add_content_slide(prs, Slide5Title, Slide5Items, "bullet"))
\* lines 252-268
Slide6 == pc = "slide6" /\ BuilderCall(add_content_slide(prs, Slide6Title, Slide6Items, "bullet"))
\* lines 271-291
Slide7 == pc = "slide7" /\ BuilderCall(add_content_slide(prs, Slide7Title, Slide7Items, "bullet"))
\* lines 294-302
Slide8 == pc = "slide8" /\ BuilderCall(add_feature_slide(prs, Slide8Title, Slide8Features))

\* slide 9: the new slide, its title bar and title (lines 305-319)
Slide9 ==
    /\ pc = "slide9"
    /\ prs' = SlideHeader(prs, Slide9Title)
    /\ pc' = After(pc)
    /\ UNCHANGED <<i, j, file, stdout, run, saved>>
    /\ UNCHANGED harness_vars

\* slide 9: the table and its column widths (lines 322-338)
Table ==
    /\ pc = "table"
    /\ prs' = AddShape(prs, [add_table(Len(table_data), 3, Inches(100), Inches(180), Inches(800), Inches(450)) EXCEPT !.col_widths = <<Inches(250), Inches(275), Inches(275)>>])
    /\ pc' = After(pc)
    /\ i' = 0
    /\ j' = 0
    /\ UNCHANGED <<file, stdout, run, saved>>
    /\ UNCHANGED harness_vars

\* one paragraph of a header cell (lines 351-354) and of a data cell (lines 361-363)
HeaderCellPara(p) == [p EXCEPT !.size = Some(Pt(18)), !.bold = Some(TRUE), !.color = Some(WHITE), !.alignment = Some("CENTER")]
DataCellPara(p) == [p EXCEPT !.size = Some(Pt(16)), !.color = Some(SECONDARY_COLOR), !.alignment = Some("CENTER")]
\* cell.text = cell_text and the styling of the cell in row r, column c,
\* both 0-based (lines 343-363)
FilledCell(cell, r, c, cell_text) ==
    LET ps == SetFrameText(cell_text)
    IN  IF r = 0 THEN [fill |-> Some(PRIMARY_COLOR), paras |-> [k \in 1..Len(ps) |-> HeaderCellPara(ps[k])]]
        ELSE [fill |-> IF c = 0 THEN Some(LIGHT_BG) ELSE cell.fill, paras |-> [k \in 1..Len(ps) |-> DataCellPara(ps[k])]]
\* the table after the loop body has run for cell (r, c)
\* (variant: the column index is dropped)
FillCellFirstColumn(tbl, r, c, cell_text) == [tbl EXCEPT !.cells[r + 1][1] = FilledCell(@, r, 0, cell_text)]
FillCell(tbl, r, c, cell_text) == [tbl EXCEPT !.cells[r + 1][c + 1] = FilledCell(@, r, c, cell_text)]

\* slide 9: one iteration of the inner loop of the table fill (lines 341-363);
\* table.cell(i, j) raises IndexError outside the table
Fill ==
    /\ pc = "fill"
    /\ LET tbl == LastShape(prs)
           row_data == table_data[i + 1]
           in_table == i + 1 <= Len(tbl.cells) /\ j + 1 <= Len(tbl.cells[i + 1])
           row_done == j + 1 >= Len(row_data)
           all_done == row_done /\ i + 1 >= Len(table_data)
       IN  IF in_table
           THEN /\ prs' = SetLastShape(prs, FillCell(tbl, i, j, row_data[j + 1]))
                /\ i' = IF row_done THEN i + 1 ELSE i
                /\ j' = IF row_done THEN 0 ELSE j + 1
                /\ pc' = IF all_done THEN After(pc) ELSE pc
           ELSE /\ pc' = "aborted"
                /\ UNCHANGED <<prs, i, j>>
    /\ UNCHANGED <<file, stdout, run, saved>>
    /\ UNCHANGED harness_vars

\* lines 366-381
Slide10 == pc = "slide10" /\ BuilderCall(add_content_slide(prs, Slide10Title, Slide10Items, "bullet"))
\* lines 384-398
Slide11 == pc = "slide11" /\ BuilderCall(add_content_slide(prs, Slide11Title, Slide11Items, "bullet"))

\* slide 12: the new slide, its title bar and title (lines 401-415)
Slide12 ==
    /\ pc = "slide12"
    /\ prs' = SlideHeader(prs, Slide12Title)
    /\ pc' = After(pc)
    /\ i' = 0
    /\ UNCHANGED <<j, file, stdout, run, saved>>
    /\ UNCHANGED harness_vars

\* the three shapes of one stat at (x, y) (lines 438-461)
StatBox(x, y) == [add_shape(x, y, Inches(250), Inches(200)) EXCEPT !.fill = Some(ACCENT_COLOR), !.line = "none"]
StatNumber(x, y, stat) == CentredBox(x, y + Inches(30), Inches(250), Inches(80), stat, 32, Some(TRUE))
StatLabel(x, y, label) == [CentredBox(x, y + Inches(120), Inches(250), Inches(60), label, 16, None) EXCEPT !.word_wrap = Some(TRUE)]

\* slide 12: one iteration of the loop over zip(stats, positions) (lines 436-461)
Stats ==
    /\ pc = "stats"
    /\ LET x == stat_positions[i + 1][1]
           y == stat_positions[i + 1][2]
           d1 == AddShape(prs, StatBox(x, y))
           d2 == AddShape(d1, StatNumber(x, y, stats[i + 1][1]))
           d3 == AddShape(d2, StatLabel(x, y, stats[i + 1][2]))
       IN  prs' = d3
    /\ i' = i + 1
    /\ pc' = IF i + 1 >= Min(Len(stats), Len(stat_positions)) THEN After(pc) ELSE pc
    /\ UNCHANGED <<j, file, stdout, run, saved>>
    /\ UNCHANGED harness_vars

\* slide 13: the new slide, its background, heading and empty steps box (lines 464-491)
Slide13 ==
    /\ pc = "slide13"
    /\ LET d1 == AddShape(add_slide(prs), Background(PRIMARY_COLOR))
           d2 == AddShape(d1, CentredBox(Inches(100), Inches(150), Inches(800), Inches(100), heading_text, 44, Some(TRUE)))
           d3 == AddShape(d2, [add_textbox(Inches(200), Inches(300), Inches(600), Inches(250)) EXCEPT !.word_wrap = Some(TRUE)])
       IN  prs' = d3
    /\ pc' = After(pc)
    /\ i' = 0
    /\ UNCHANGED <<j, file, stdout, run, saved>>
    /\ UNCHANGED harness_vars

\* the body of the steps loop for one paragraph (lines 497-501)
StepPara(p, step) == [SetParaText(p, step) EXCEPT !.size = Some(Pt(28)), !.color = Some(WHITE), !.alignment = Some("CENTER"), !.space_before = Some(Pt(20))]

\* slide 13: one iteration of the steps loop (lines 493-501)
Steps ==
    /\ pc = "steps"
    /\ LET box == LastShape(prs)
           ps == IF i > 0 THEN add_paragraph(box.paras) ELSE box.paras
       IN  IF i + 1 <= Len(ps)
           THEN /\ prs' = SetLastShape(prs, [box EXCEPT !.paras = [ps EXCEPT ![i + 1] = StepPara(@, steps_text[i + 1])]])
                /\ i' = i + 1
                /\ pc' = IF i + 1 >= Len(steps_text) THEN After(pc) ELSE pc
           ELSE /\ pc' = "aborted"
                /\ UNCHANGED <<prs, i>>
    /\ UNCHANGED <<j, file, stdout, run, saved>>
    /\ UNCHANGED harness_vars

\* slide 13: the contact text (lines 504-510)
Contact ==
    /\ pc = "contact"
    /\ prs' = AddShape(prs, CentredBox(Inches(200), Inches(600), Inches(600), Inches(80), contact_text, 20, None))
    /\ pc' = After(pc)
    /\ UNCHANGED <<i, j, file, stdout, run, saved>>
    /\ UNCHANGED harness_vars

\* slide 14 (lines 513-538)
Slide14 ==
    /\ pc = "slide14"
    /\ LET d1 == AddShape(add_slide(prs), Background(ACCENT_COLOR))
           d2 == AddShape(d1, CentredBox(Inches(100), Inches(250), Inches(800), Inches(200), thanks_text, 72, Some(TRUE)))
           d3 == AddShape(d2, CentredBox(Inches(100), Inches(450), Inches(800), Inches(100), tagline_text, 32, None))
       IN  prs' = d3
    /\ pc' = After(pc)
    /\ UNCHANGED <<i, j, file, stdout, run, saved>>
    /\ UNCHANGED harness_vars

\* prs.save(...) succeeds: the file holds the document, replacing what it held (line 541)
Save ==
    /\ pc = "save"
    /\ file' = [state |-> "written", doc |-> prs]
    /\ saved' = Append(saved, [run |-> run, doc |-> prs])
    /\ pc' = After(pc)
    /\ UNCHANGED <<prs, i, j, stdout, run>>
    /\ UNCHANGED harness_vars

\* prs.save(...) raises (line 541): the path cannot be opened and the file is as
\* it was, or the write breaks off and leaves a truncated file
SaveFail ==
    /\ pc = "save"
    /\ file' \in {file, [state |-> "corrupt", doc |-> <<>>]}
    /\ pc' = "aborted"
    /\ UNCHANGED <<prs, i, j, stdout, run, saved>>
    /\ UNCHANGED harness_vars

\* print(...) number n (lines 542-545)
PrintLine(n) ==
    /\ stdout' = Append(stdout, status_lines[n])
    /\ pc' = After(pc)
    /\ UNCHANGED <<prs, i, j, file, run, saved>>
    /\ UNCHANGED harness_vars

Print1 == pc = "print1" /\ PrintLine(1)
Print2 == pc = "print2" /\ PrintLine(2)
Print3 == pc = "print3" /\ PrintLine(3)
Print4 == pc = "print4" /\ PrintLine(4)

\* a library call of a construction statement raises: nothing handles it, the
\* run ends there and the statements after it never run (lines 184-538)
\* (variant: the failure path writes what has been built so far)
ConstructionFailSaving ==
    /\ pc \in ConstructionPcs
    /\ pc' = "aborted"
    /\ file' = [state |-> "written", doc |-> prs]
    /\ UNCHANGED <<prs, i, j, stdout, run, saved>>
    /\ UNCHANGED harness_vars
ConstructionFail ==
    /\ pc \in ConstructionPcs
    /\ pc' = "aborted"
    /\ UNCHANGED <<prs, i, j, file, stdout, run, saved>>
    /\ UNCHANGED harness_vars

\* the program is started again in the same working directory (lines 547-548):
\* a new process, with the file the earlier runs left
Invoke ==
    /\ pc \in {"done", "aborted"}
    /\ run < MaxRuns
    /\ pc' = "start"
    /\ run' = run + 1
    /\ prs' = <<>>
    /\ i' = 0
    /\ j' = 0
    /\ stdout' = <<>>
    /\ UNCHANGED <<file, saved>>
    /\ UNCHANGED harness_vars

Next ==
    \/ Start
    \/ Slide1 \/ Slide2 \/ Slide3 \/ Slide4 \/ Slide5 \/ Slide6 \/ Slide7 \/ Slide8
    \/ Slide9 \/ Table \/ Fill
    \/ Slide10 \/ Slide11
    \/ Slide12 \/ Stats
    \/ Slide13 \/ Steps \/ Contact
    \/ Slide14
    \/ Save \/ SaveFail
    \/ Print1 \/ Print2 \/ Print3 \/ Print4
    \/ ConstructionFail
    \/ Invoke

Spec == Init /\ [][Next]_vars

----------------------------------------------------------------------------
\* The builders on arbitrary arguments: a harness that calls them on a fresh
\* document with lists drawn from the bounded sets above

program_vars == <<pc, i, j, file, stdout, run, saved>>

InitBuilders ==
    /\ prs = <<>>
    /\ pc = "harness"
    /\ i = 0
    /\ j = 0
    /\ file = NoFile
    /\ stdout = <<>>
    /\ run = 1
    /\ saved = <<>>
    /\ content_items \in ListsUpTo(ItemAlphabet, MaxItems)
    /\ features \in ListsUpTo(FeatureAlphabet, MaxFeatures)
    /\ content_items = <<>> \/ features = <<>>
    /\ calls = <<>>
    /\ raised = FALSE

\* the harness calls a builder; after a call that raised it makes no other
HarnessCall(fn, title, layout_type, r) ==
    /\ pc = "harness"
    /\ Len(calls) < MaxCalls
    /\ ~raised
    /\ prs' = r.slides
    /\ raised' = r.raised
    /\ calls' = Append(calls, [fn |-> fn, title |-> title, layout_type |-> layout_type])
    /\ UNCHANGED <<content_items, features>>
    /\ UNCHANGED program_vars

CallAddTitleSlide == \E t \in TitleAlphabet : HarnessCall("add_title_slide", t, "", add_title_slide(prs, t, <<"S">>))
CallAddContentSlide == \E t \in TitleAlphabet, l \in LayoutTypes : HarnessCall("add_content_slide", t, l, add_content_slide(prs, t, content_items, l))
CallAddFeatureSlide == \E t \in TitleAlphabet : HarnessCall("add_feature_slide", t, "", add_feature_slide(prs, t, features))

NextBuilders == CallAddTitleSlide \/ CallAddContentSlide \/ CallAddFeatureSlide

SpecBuilders == InitBuilders /\ [][NextBuilders]_vars

----------------------------------------------------------------------------
\* Reading a document back

\* text_frame.text as read back: the paragraphs' texts, joined with "\n"
RECURSIVE FrameText(_)
FrameText(paras) == IF paras = <<>> THEN <<>> ELSE paras[1].text \o FrameText(Tail(paras))

\* the first text box of a slide carries its title or heading
SlideTitle(slide) == FrameText(slide[CHOOSE k \in 1..Len(slide) : slide[k].kind = "textbox" /\ \A m \in 1..(k - 1) : slide[m].kind # "textbox"].paras)

\* the paragraphs a builder loop has written: the loop sets the font size of
\* every paragraph it touches, the library sets none
Written(p) == p.size # None
ItemsIn(box) == LET sel == SelectSeq(box.paras, Written) IN [k \in 1..Len(sel) |-> sel[k].text]

\* the run has written the output file
SavedThisRun == \E a \in 1..Len(saved) : saved[a].run = run

\* the statements that start a slide
SlideStartPcs == {"slide1", "slide2", "slide3", "slide4", "slide5", "slide6", "slide7", "slide8", "slide9", "slide10", "slide11", "slide12", "slide13", "slide14"}

\* the titles of the 14 slides in the order of the specification: title,
\* challenge, features, generation, processing, architecture, demo-flow,
\* use-cases, comparison-table, business-value, roadmap, stats,
\* call-to-action, thank-you
ExpectedTitles == <<
    <<"Signal Processing Visualization Platform">>,
    <<"The Challenge">>,
    <<"Key Features">>,
    <<"Multi-Signal Generation">>,
    <<"Real-Time Signal Processing">>,
    <<"Enterprise-Grade Architecture">>,
    <<"Live Demo Flow (3 Minutes)">>,
    <<"Use Cases Across Industries">>,
    <<"What Makes Us Different">>,
    <<"Business Value">>,
    <<"Future Roadmap">>,
    <<"Quick Stats">>,
    <<"Ready to Transform Your Workflow?">>,
    <<"Thank You!">> >>

----------------------------------------------------------------------------
\* C1: at every moment of a run the slides of the document are, in order, the
\* first slides of the fixed list of 14 (so none comes before an earlier one
\* and none comes twice), and once construction is over the document holds
\* exactly the 14 of them.
C1_SlideOrder ==
    /\ Len(prs) <= 14
    /\ \A k \in 1..Len(prs) : SlideTitle(prs[k]) = ExpectedTitles[k]
    /\ pc \in {"save", "print1", "print2", "print3", "print4", "done"} => Len(prs) = 14

C1_Witness == pc = "done" /\ Len(prs) = 14 /\ SlideTitle(prs[14]) = <<"Thank You!">>

\* the fill loop of the table is over; the texts of row r of the table
C4_Filled == Len(prs) >= 10 \/ (Len(prs) = 9 /\ pc = "slide10")
C4_RowText(r) == [c \in 1..3 |-> FrameText(prs[9][3].cells[r][c].paras)]
\* C4: the table of slide 9 has 7 rows of 3 cells from its creation on, and
\* once the fill loop is over every cell (i, j) reads table_data[i][j]; row 0
\* and row 1 read the literals of the specification.
C4_ComparisonTable ==
    /\ (Len(prs) >= 9 /\ Len(prs[9]) >= 3) =>
          /\ prs[9][3].kind = "table"
          /\ Len(prs[9][3].cells) = 7
          /\ \A r \in 1..7 : Len(prs[9][3].cells[r]) = 3
    /\ C4_Filled =>
          /\ Len(prs[9]) = 3
          /\ \A r \in 1..7 : \A c \in 1..3 : FrameText(prs[9][3].cells[r][c].paras) = table_data[r][c]
          /\ C4_RowText(1) = << <<"Feature">>, <<"Traditional Tools">>, <<"Our Platform">> >>
          /\ C4_RowText(2) = << <<"Learning Curve">>, <<"Weeks">>, <<"{U+2705} Minutes">> >>

C4_Witness == pc = "slide10" /\ Len(prs) = 9 /\ C4_RowText(7)[3] = <<"{U+2705} Open Architecture">>

\* C5: a run writes the output file at most once, a finished run has written
\* it exactly once, the file changes only in the save statement and then the
\* document holds all 14 slides, no construction statement touches the file,
\* and a run that has aborted never reaches the save nor touches the file.
C5_SaveLast ==
    /\ [](\A a, b \in 1..Len(saved) : saved[a].run = saved[b].run => a = b)
    /\ [](pc = "done" => SavedThisRun)
    /\ [][file' # file => (pc = "save" /\ Len(prs) = 14 /\ Len(prs[14]) = 3)]_vars
    /\ [][(pc \in (ConstructionPcs \cup {"start"})) => (file' = file /\ saved' = saved)]_vars
    /\ [][pc = "aborted" => (file' = file /\ saved' = saved /\ pc' \in {"aborted", "start"})]_vars

\* the second run failed during construction and the file of the first is untouched
C5_Witness == run = 2 /\ pc = "aborted" /\ Len(prs) < 14 /\ Len(saved) = 1 /\ file = [state |-> "written", doc |-> saved[1].doc]

\* C6 as stated: a finished run has printed exactly three lines, every line is
\* printed after the save of the run, and an aborted run has printed nothing.
C6_ThreeLines ==
    /\ pc = "done" => Len(stdout) = 3
    /\ stdout # <<>> => SavedThisRun
    /\ pc = "aborted" => stdout = <<>>

\* C6 as amended: a finished run has printed exactly the four status lines of
\* the script in order, every line is printed after the save of the run has
\* succeeded, and an aborted run has printed nothing.
C6_FourLines ==
    /\ Len(stdout) <= 4
    /\ \A n \in 1..Len(stdout) : stdout[n] = status_lines[n]
    /\ pc = "done" => Len(stdout) = 4
    /\ stdout # <<>> => SavedThisRun /\ file = [state |-> "written", doc |-> prs]
    /\ pc = "aborted" => stdout = <<>>

C6_Witness == pc = "done" /\ Len(stdout) = 4 /\ stdout[4] = <<"{U+23F1}{U+FE0F} Optimized for 3-minute delivery">>

\* C7: all runs in one working directory save the same document, 14 slides
\* with the same shapes and texts in the same order, whatever file the
\* earlier runs have left, and the file holds the document of the last save.
C7_SameDocument ==
    /\ \A a, b \in 1..Len(saved) : saved[a].doc = saved[b].doc
    /\ \A a \in 1..Len(saved) : Len(saved[a].doc) = 14
    /\ file.state = "written" => Len(saved) >= 1 /\ file.doc = saved[Len(saved)].doc

C7_Witness == Len(saved) = 2 /\ saved[1].run = 1 /\ saved[2].run = 2 /\ pc = "done"

\* C9: a statement that starts a slide adds exactly one slide at the end of the
\* document and leaves the slides before it as they were; every other
\* statement of a run leaves the number of slides and all slides but the last
\* as they were, and removes no shape from the last; a failing statement
\* changes nothing.
C9_Frame ==
    [][\/ pc' = "start"
       \/ /\ pc \in SlideStartPcs
          /\ pc' # "aborted"
          /\ Len(prs') = Len(prs) + 1
          /\ SubSeq(prs', 1, Len(prs)) = prs
          /\ Len(prs'[Len(prs')]) >= 1
       \/ /\ pc \in SlideStartPcs
          /\ pc' = "aborted"
          /\ prs' = prs
       \/ /\ pc \notin SlideStartPcs
          /\ Len(prs') = Len(prs)
          /\ \A k \in 1..(Len(prs) - 1) : prs'[k] = prs[k]
          /\ Len(prs) >= 1 => Len(prs'[Len(prs)]) >= Len(prs[Len(prs)])]_vars

\* the stat loop is at work on slide 12, after builders and the table block
C9_Witness == pc = "stats" /\ i = 3 /\ Len(prs) = 12 /\ Len(prs[12]) = 11

\* slide 13 is complete: background, heading, steps box and contact box
C11_Slide13Built == Len(prs) >= 14 \/ (Len(prs) = 13 /\ Len(prs[13]) = 4)
\* C11: once slide 13 is complete, every paragraph of each of its text boxes
\* (heading, steps, contact text) is white and centre-aligned.
C11_WhiteCentred ==
    C11_Slide13Built =>
        \A q \in 1..Len(prs[13]) : prs[13][q].kind = "textbox" =>
            \A n \in 1..Len(prs[13][q].paras) :
                /\ prs[13][q].paras[n].color = << <<255, 255, 255>> >>
                /\ prs[13][q].paras[n].alignment = <<"CENTER">>

\* the canvas of 10 x 7.5 in, in EMU
C12_Inside(shape) ==
    /\ shape.x >= 0
    /\ shape.y >= 0
    /\ shape.x + shape.w <= 9144000
    /\ shape.y + shape.h <= 6858000
\* C12: every shape of every slide lies inside the canvas, and the table has
\* three column widths whose sum is the width of the table.
C12_InsideCanvas ==
    \A k \in 1..Len(prs) : \A q \in 1..Len(prs[k]) :
        /\ C12_Inside(prs[k][q])
        /\ prs[k][q].kind = "table" =>
              /\ Len(prs[k][q].col_widths) = 3
              /\ prs[k][q].col_widths[1] + prs[k][q].col_widths[2] + prs[k][q].col_widths[3] = prs[k][q].w

\* all 14 slides are built: the table, the last feature box and the last stat
\* box are in the document
C12_Witness ==
    /\ pc = "save"
    /\ Len(prs) = 14
    /\ prs[9][3].kind = "table" /\ prs[9][3].col_widths = <<2286000, 2514600, 2514600>>
    /\ prs[8][12].kind = "rect" /\ prs[8][12].x + prs[8][12].w = 8412480 /\ prs[8][12].y + prs[8][12].h = 6126480
    /\ prs[12][18].kind = "rect" /\ prs[12][18].x + prs[12][18].w = 8321040

----------------------------------------------------------------------------
\* The builders on arbitrary arguments (SpecBuilders)

IsContentCall(k, layout_type) == calls[k].fn = "add_content_slide" /\ calls[k].layout_type = layout_type

\* C2: in "two_column" mode the left box (at 0.8 in) gets the first N // 2
\* items and the right box (at 5.2 in) the other N - N // 2, each in input
\* order: left followed by right is the input list, and for odd N the left
\* box has one item fewer than the right.
C2_TwoColumnSplit ==
    \A k \in 1..Len(calls) : IsContentCall(k, "two_column") =>
        /\ Len(prs) >= k
        /\ Len(prs[k]) = 4
        /\ prs[k][3].kind = "textbox" /\ prs[k][3].x = 731520
        /\ prs[k][4].kind = "textbox" /\ prs[k][4].x = 4754880
        /\ LET N == Len(content_items)
               left == ItemsIn(prs[k][3])
               right == ItemsIn(prs[k][4])
           IN  /\ Len(left) = N \div 2
               /\ Len(right) = N - N \div 2
               /\ left \o right = content_items
               /\ N % 2 = 1 => Len(left) + 1 = Len(right)

C2_Witness == Len(content_items) = 3 /\ \E k \in 1..Len(calls) : IsContentCall(k, "two_column") /\ Len(ItemsIn(prs[k][3])) = 1 /\ Len(ItemsIn(prs[k][4])) = 2

\* the four grid positions in EMU: top-left, top-right, bottom-left, bottom-right
C3_Grid == << <<731520, 1371600>>, <<4754880, 1371600>>, <<731520, 3840480>>, <<4754880, 3840480>> >>
C3_InCell(shape, n) == /\ shape.x >= C3_Grid[n][1] /\ shape.x < C3_Grid[n][1] + 3657600
                       /\ shape.y >= C3_Grid[n][2] /\ shape.y < C3_Grid[n][2] + 2286000
\* C3: add_feature_slide emits min(K, 4) feature boxes, three shapes each: the
\* n-th pair has its box at the n-th grid position and its heading and
\* description inside it, a pair after the fourth has no shape, and a grid
\* position without a pair holds no shape.
C3_FeatureGrid ==
    \A k \in 1..Len(calls) : calls[k].fn = "add_feature_slide" =>
        LET K == Len(features)
            m == IF K < 4 THEN K ELSE 4
        IN  /\ ~raised
            /\ Len(prs) >= k
            /\ Len(prs[k]) = 2 + 3 * m
            /\ \A n \in 1..m :
                  /\ prs[k][3 * n].kind = "rect"
                  /\ <<prs[k][3 * n].x, prs[k][3 * n].y>> = C3_Grid[n]
                  /\ <<prs[k][3 * n].w, prs[k][3 * n].h>> = <<3657600, 2286000>>
                  /\ prs[k][3 * n + 1].kind = "textbox" /\ C3_InCell(prs[k][3 * n + 1], n)
                  /\ FrameText(prs[k][3 * n + 1].paras) = features[n][1]
                  /\ prs[k][3 * n + 2].kind = "textbox" /\ C3_InCell(prs[k][3 * n + 2], n)
                  /\ FrameText(prs[k][3 * n + 2].paras) = features[n][2]
            /\ \A n \in (m + 1)..4 : \A q \in 3..Len(prs[k]) : ~C3_InCell(prs[k][q], n)

C3_Witness == Len(features) = 2 /\ \E k \in 1..Len(calls) : calls[k].fn = "add_feature_slide" /\ Len(prs[k]) = 8

\* C8: with an empty list add_content_slide does not raise in either mode and
\* appends one slide: the title bar, the title, and body text boxes that hold
\* no item and no text.
C8_EmptyList ==
    content_items = <<>> =>
        \A k \in 1..Len(calls) : (IsContentCall(k, "bullet") \/ IsContentCall(k, "two_column")) =>
            /\ ~raised
            /\ Len(prs) = Len(calls)
            /\ Len(prs[k]) = (IF IsContentCall(k, "bullet") THEN 3 ELSE 4)
            /\ prs[k][1].kind = "rect" /\ prs[k][1].fill = <<PRIMARY_COLOR>> /\ prs[k][1].w = 9144000
            /\ prs[k][2].kind = "textbox" /\ FrameText(prs[k][2].paras) = calls[k].title
            /\ \A q \in 3..Len(prs[k]) :
                  /\ prs[k][q].kind = "textbox"
                  /\ ItemsIn(prs[k][q]) = <<>>
                  /\ FrameText(prs[k][q].paras) = <<"">>

C8_Witness == content_items = <<>> /\ Len(calls) = 2 /\ IsContentCall(1, "bullet") /\ IsContentCall(2, "two_column") /\ Len(prs) = 2

\* C10: in "bullet" mode a list of N >= 1 lines gives one body text box of
\* exactly N paragraphs, paragraph n holding line n whole (an empty line is an
\* empty paragraph), each of them at level 0, 20 pt, in the secondary colour
\* and with 12 pt space before.
C10_BulletParagraphs ==
    \A k \in 1..Len(calls) : (IsContentCall(k, "bullet") /\ Len(content_items) >= 1) =>
        /\ ~raised
        /\ Len(prs) >= k
        /\ Len(prs[k]) = 3
        /\ prs[k][3].kind = "textbox"
        /\ Len(prs[k][3].paras) = Len(content_items)
        /\ \A n \in 1..Len(content_items) :
              /\ prs[k][3].paras[n].text = content_items[n]
              /\ prs[k][3].paras[n].level = 0
              /\ prs[k][3].paras[n].size = <<254000>>
              /\ prs[k][3].paras[n].color = << <<51, 51, 51>> >>
              /\ prs[k][3].paras[n].space_before = <<152400>>

C10_Witness == Len(content_items) = 3 /\ content_items[2] = <<"">> /\ \E k \in 1..Len(calls) : IsContentCall(k, "bullet") /\ Len(prs[k][3].paras) = 3 /\ prs[k][3].paras[3].size = <<254000>>

====
